---- MODULE Spec2Model ----
(***************************************************************************)
(* A model of the command-line core of LUCIEN: the tokenizer and parser of *)
(* core/shell_parser.py and the executor and session state of              *)
(* core/shell_executor.py.                                                 *)
(*                                                                         *)
(* A Python str is a sequence of one-character strings, so that the        *)
(* tokenizer, strip, split, replace and the regular expressions of the     *)
(* variable expansion are computed character by character.  An Optional    *)
(* field is a sequence of length 0 (None) or 1 (the value).  A dict is the *)
(* sequence of its <<key, value>> items in insertion order.                *)
(***************************************************************************)
EXTENDS Integers, Sequences, FiniteSets, TLC

VARIABLES
    line,             \* the command line handed to ShellParser.parse (None: no line)
    variables,        \* ShellParser.variables
    pipeline,         \* the Pipeline returned by parse / given to execute_pipeline
    pc,               \* position of the caller and of execute_pipeline
    idx,              \* loop index i of _execute_pipeline's two loops
    processes,        \* the child processes spawned by the call in progress
    final_returncode, \* local of _execute_pipeline's wait loop
    result,           \* outcome of the last call (None while none is available)
    calls,            \* number of calls made on this executor
    current_dir,      \* ShellState.current_dir
    os_cwd,           \* the working directory of the interpreter (os.chdir)
    environment,      \* ShellState.environment
    os_environ,       \* os.environ
    aliases,          \* ShellState.aliases
    fs,               \* contents of the regular files that exist
    elapsed           \* seconds the call in progress has spent waiting for children

vars == <<line, variables, pipeline, pc, idx, processes, final_returncode, result,
          calls, current_dir, os_cwd, environment, os_environ, aliases, fs, elapsed>>

(***************************************************************************)
(* Strings and dicts                                                       *)
(***************************************************************************)
None == << >>
Some(v) == << v >>
IsSet(opt) == opt # None

\* a dict is the sequence of its <<key, value>> items in insertion order
EmptyDict == << >>
Keys(d) == {d[k][1] : k \in 1..Len(d)}
HasKey(d, key) == key \in Keys(d)
ItemIndex(d, key) == CHOOSE k \in 1..Len(d) : d[k][1] = key
\* d[key] = v
Put(d, key, v) ==
    IF HasKey(d, key) THEN [d EXCEPT ![ItemIndex(d, key)] = <<key, v>>]
    ELSE Append(d, <<key, v>>)
\* d.get(key, default)
Get(d, key, default) == IF HasKey(d, key) THEN d[ItemIndex(d, key)][2] ELSE default
\* d.update(other)
RECURSIVE Update(_, _)
Update(d, other) ==
    IF other = << >> THEN d
    ELSE Update(Put(d, Head(other)[1], Head(other)[2]), Tail(other))

Letters ==
    {"a","b","c","d","e","f","g","h","i","j","k","l","m","n","o","p","q","r",
     "s","t","u","v","w","x","y","z","A","B","C","D","E","F","G","H","I","J",
     "K","L","M","N","O","P","Q","R","S","T","U","V","W","X","Y","Z"}
Digits == {"0","1","2","3","4","5","6","7","8","9"}
IsSpace(c) == c \in {" ", "\t"}
IsIdentStart(c) == c \in Letters \cup {"_"}
IsIdentChar(c) == c \in Letters \cup Digits \cup {"_"}

RECURSIVE LStrip(_)
LStrip(s) == IF s # << >> /\ IsSpace(Head(s)) THEN LStrip(Tail(s)) ELSE s

RECURSIVE RStrip(_)
RStrip(s) ==
    IF s # << >> /\ IsSpace(s[Len(s)]) THEN RStrip(SubSeq(s, 1, Len(s) - 1))
    ELSE s

Strip(s) == RStrip(LStrip(s))

StartsWith(s, p) == Len(s) >= Len(p) /\ SubSeq(s, 1, Len(p)) = p

Contains(s, c) == \E k \in 1..Len(s) : s[k] = c

\* index of the first occurrence of character c in s (s contains c)
IndexOf(s, c) == CHOOSE k \in 1..Len(s) : s[k] = c /\ \A j \in 1..(k - 1) : s[j] # c

\* s.split(c, 1) for a string that contains c: <<before, after>>
Split1(s, c) ==
    <<SubSeq(s, 1, IndexOf(s, c) - 1), SubSeq(s, IndexOf(s, c) + 1, Len(s))>>

\* s.lstrip('$')
RECURSIVE LStripDollar(_)
LStripDollar(s) ==
    IF s # << >> /\ Head(s) = "$" THEN LStripDollar(Tail(s)) ELSE s

\* text.replace(old, new) for a non-empty old: every non-overlapping
\* occurrence, left to right
RECURSIVE Replace(_, _, _)
Replace(text, old, new) ==
    IF Len(text) < Len(old) THEN text
    ELSE IF SubSeq(text, 1, Len(old)) = old
         THEN new \o Replace(SubSeq(text, Len(old) + 1, Len(text)), old, new)
         ELSE <<Head(text)>> \o Replace(Tail(text), old, new)

\* " ".join(args)
RECURSIVE Join(_)
Join(args) ==
    IF args = << >> THEN << >>
    ELSE IF Len(args) = 1 THEN args[1]
    ELSE args[1] \o <<" ">> \o Join(Tail(args))

(***************************************************************************)
(* ShellParser._expand_variables                                           *)
(***************************************************************************)
\* re.finditer(r'\$\{([^}]+)\}', text) from position i: the sequence of
\* <<match.group(0), match.group(1)>>, leftmost first, non-overlapping
RECURSIVE BraceMatches(_, _)
BraceMatches(text, i) ==
    IF i + 3 > Len(text) THEN << >>
    ELSE IF text[i] = "$" /\ text[i + 1] = "{" /\ text[i + 2] # "}"
              /\ \E k \in (i + 3)..Len(text) : text[k] = "}"
         THEN LET k == CHOOSE k \in (i + 3)..Len(text) :
                         text[k] = "}" /\ \A j \in (i + 3)..(k - 1) : text[j] # "}"
              IN  << <<SubSeq(text, i, k), SubSeq(text, i + 2, k - 1)>> >>
                  \o BraceMatches(text, k + 1)
         ELSE BraceMatches(text, i + 1)

\* end of the longest run of identifier characters that starts at i
RECURSIVE IdentEnd(_, _)
IdentEnd(text, i) ==
    IF i + 1 <= Len(text) /\ IsIdentChar(text[i + 1]) THEN IdentEnd(text, i + 1)
    ELSE i

\* re.finditer(r'\$([A-Za-z_][A-Za-z0-9_]*)', text) from position i
RECURSIVE BareMatches(_, _)
BareMatches(text, i) ==
    IF i + 1 > Len(text) THEN << >>
    ELSE IF text[i] = "$" /\ IsIdentStart(text[i + 1])
         THEN LET k == IdentEnd(text, i + 1)
              IN  << <<SubSeq(text, i, k), SubSeq(text, i + 1, k)>> >>
                  \o BareMatches(text, k + 1)
         ELSE BareMatches(text, i + 1)

\* self.variables.get(var_name, os.environ.get(var_name, ''))
Lookup(svars, environ, var_name) == Get(svars, var_name, Get(environ, var_name, << >>))

\* the body of either for loop: text = text.replace(match.group(0), var_value)
\* for each match found in the text the loop started with
RECURSIVE ReplaceMatches(_, _, _, _)
ReplaceMatches(text, matches, svars, environ) ==
    IF matches = << >> THEN text
    ELSE ReplaceMatches(
             Replace(text, Head(matches)[1], Lookup(svars, environ, Head(matches)[2])),
             Tail(matches), svars, environ)

expand_variables(text, svars, environ) ==
    LET t1 == ReplaceMatches(text, BraceMatches(text, 1), svars, environ)
    IN  ReplaceMatches(t1, BareMatches(t1, 1), svars, environ)

(***************************************************************************)
(* ShellParser.tokenize                                                    *)
(***************************************************************************)
\* ClosesQuote with any quote character closing the open region
ClosesQuote_AnyQuote(char, quote_char) == char \in {"\"", "'"}

\* char == quote_char
ClosesQuote(char, quote_char) == char = quote_char

\* the while loop over the characters: quote_char is "" for None, and
\* in_quotes is true exactly when quote_char is set
RECURSIVE SplitParts(_, _, _, _, _)
SplitParts(s, i, current, quote_char, parts) ==
    LET in_quotes == quote_char # ""
        flushed == IF Strip(current) # << >> THEN Append(parts, Strip(current)) ELSE parts
        rest    == IF Strip(current) # << >> THEN << >> ELSE current
    IN
    IF i > Len(s) THEN flushed
    ELSE LET char == s[i] IN
         IF char \in {"\"", "'"} /\ ~in_quotes
         THEN SplitParts(s, i + 1, Append(current, char), char, parts)
         ELSE IF ClosesQuote(char, quote_char) /\ in_quotes
         THEN SplitParts(s, i + 1, Append(current, char), "", parts)
         ELSE IF ~in_quotes /\ char \in {"|", ">", "<", "&"}
         THEN IF char \in {">", "&", "|"} /\ i + 1 <= Len(s) /\ s[i + 1] = char
              THEN SplitParts(s, i + 2, rest, quote_char, Append(flushed, <<char, char>>))
              ELSE SplitParts(s, i + 1, rest, quote_char, Append(flushed, <<char>>))
         ELSE IF ~in_quotes /\ IsSpace(char)
         THEN SplitParts(s, i + 1, rest, quote_char, flushed)
         ELSE SplitParts(s, i + 1, Append(current, char), quote_char, parts)

\* TokenTypeOf with the test for the first part dropped: a part starts a
\* command only after a pipe, && or ||
TokenTypeOf_NotFirst(parts, i) ==
    LET part == parts[i] IN
    IF part = <<"|">> THEN "PIPE"
    ELSE IF part = <<">">> THEN "REDIRECT_OUT"
    ELSE IF part = <<">", ">">> THEN "REDIRECT_APPEND"
    ELSE IF part = <<"<">> THEN "REDIRECT_IN"
    ELSE IF part = <<"&">> THEN "BACKGROUND"
    ELSE IF StartsWith(part, <<"$">>) THEN "VARIABLE"
    ELSE IF i > 1 /\ parts[i - 1] \in {<<"|">>, <<"&", "&">>, <<"|", "|">>} THEN "COMMAND"
    ELSE "ARGUMENT"

\* TokenType of parts[i]
TokenTypeOf(parts, i) ==
    LET part == parts[i] IN
    IF part = <<"|">> THEN "PIPE"
    ELSE IF part = <<">">> THEN "REDIRECT_OUT"
    ELSE IF part = <<">", ">">> THEN "REDIRECT_APPEND"
    ELSE IF part = <<"<">> THEN "REDIRECT_IN"
    ELSE IF part = <<"&">> THEN "BACKGROUND"
    ELSE IF StartsWith(part, <<"$">>) THEN "VARIABLE"
    ELSE IF i = 1 \/ parts[i - 1] \in {<<"|">>, <<"&", "&">>, <<"|", "|">>} THEN "COMMAND"
    ELSE "ARGUMENT"

\* position of parts[i]: the sum of len(part) + 1 over the earlier parts
RECURSIVE PositionOf(_, _)
PositionOf(parts, i) ==
    IF i = 1 THEN 0 ELSE PositionOf(parts, i - 1) + Len(parts[i - 1]) + 1

tokenize(command_line) ==
    LET parts == SplitParts(command_line, 1, << >>, "", << >>)
    IN  [i \in 1..Len(parts) |->
            [type |-> TokenTypeOf(parts, i), value |-> parts[i],
             position |-> PositionOf(parts, i)]]

(***************************************************************************)
(* ShellParser.parse                                                       *)
(***************************************************************************)
NewCommand(name) ==
    [name |-> name, args |-> << >>, env_vars |-> EmptyDict,
     input_redirect |-> None, output_redirect |-> None, append_redirect |-> None,
     is_background |-> FALSE]

\* commands.append(current_command) when a command is open
Closed(commands, current_command) ==
    IF IsSet(current_command) THEN Append(commands, current_command[1]) ELSE commands

\* the while loop over the tokens; the result is <<commands, variables>>
RECURSIVE ParseLoop(_, _, _, _, _, _)
ParseLoop(tokens, i, commands, current_command, svars, environ) ==
    IF i > Len(tokens) THEN <<Closed(commands, current_command), svars>>
    ELSE
    LET token == tokens[i]
        open  == IsSet(current_command)
        cur   == current_command[1]
        exp(t) == expand_variables(t, svars, environ)
        hasNext == i + 1 <= Len(tokens)
    IN
    IF token.type = "COMMAND"
    THEN ParseLoop(tokens, i + 1, Closed(commands, current_command),
                   Some(NewCommand(exp(token.value))), svars, environ)
    ELSE IF token.type = "ARGUMENT" /\ open
    THEN ParseLoop(tokens, i + 1, commands,
                   Some([cur EXCEPT !.args = Append(@, exp(token.value))]), svars, environ)
    ELSE IF token.type = "PIPE"
    THEN ParseLoop(tokens, i + 1, Closed(commands, current_command), None, svars, environ)
    ELSE IF token.type = "REDIRECT_OUT" /\ open
    THEN IF hasNext
         THEN ParseLoop(tokens, i + 2, commands,
                  Some([cur EXCEPT !.output_redirect = Some(exp(tokens[i + 1].value))]),
                  svars, environ)
         ELSE ParseLoop(tokens, i + 1, commands, current_command, svars, environ)
    ELSE IF token.type = "REDIRECT_APPEND" /\ open
    THEN IF hasNext
         THEN ParseLoop(tokens, i + 2, commands,
                  Some([cur EXCEPT !.append_redirect = Some(exp(tokens[i + 1].value))]),
                  svars, environ)
         ELSE ParseLoop(tokens, i + 1, commands, current_command, svars, environ)
    ELSE IF token.type = "REDIRECT_IN" /\ open
    THEN IF hasNext
         THEN ParseLoop(tokens, i + 2, commands,
                  Some([cur EXCEPT !.input_redirect = Some(exp(tokens[i + 1].value))]),
                  svars, environ)
         ELSE ParseLoop(tokens, i + 1, commands, current_command, svars, environ)
    ELSE IF token.type = "BACKGROUND"
    THEN ParseLoop(tokens, i + 1, commands,
                   IF open THEN Some([cur EXCEPT !.is_background = TRUE]) ELSE None,
                   svars, environ)
    ELSE IF token.type = "VARIABLE" /\ Contains(token.value, "=")
    THEN LET var_name  == LStripDollar(Split1(token.value, "=")[1])
             var_value == exp(Split1(token.value, "=")[2])
         IN  IF open
             THEN ParseLoop(tokens, i + 1, commands,
                      Some([cur EXCEPT !.env_vars = Put(@, var_name, var_value)]),
                      svars, environ)
             ELSE ParseLoop(tokens, i + 1, commands, current_command,
                      Put(svars, var_name, var_value), environ)
    ELSE ParseLoop(tokens, i + 1, commands, current_command, svars, environ)

\* the flag of the last command only
Pipeline_LastOnly(commands) ==
    [commands |-> commands,
     is_background |-> commands # << >> /\ commands[Len(commands)].is_background]

\* Pipeline(commands=commands, is_background=any(cmd.is_background for cmd in commands))
Pipeline(commands) ==
    [commands |-> commands,
     is_background |-> \E k \in 1..Len(commands) : commands[k].is_background]

\* parse(command_line): the Pipeline and the parser's variables afterwards
parse(command_line, svars, environ) ==
    IF Strip(command_line) = << >>
    THEN [pipeline |-> Pipeline(<< >>), variables |-> svars]
    ELSE LET r == ParseLoop(tokenize(command_line), 1, << >>, None, svars, environ)
         IN  [pipeline |-> Pipeline(r[1]), variables |-> r[2]]

(***************************************************************************)
(* The parser on its own: a caller either has a line parsed once (line is   *)
(* set) or sets and reads variables of the parser (line is None)           *)
(*   pc = "start"   nothing was called yet                                 *)
(*   pc = "parsed"  parse has returned, pipeline holds the Pipeline        *)
(*   pc = "set"     set_variable has returned                              *)
(*   pc = "got"     get_variable is over, result holds its outcome         *)
(***************************************************************************)
MaxLen == 4

\* characters of the exhaustively enumerated lines
Alphabet == {"a", " ", "|", ">", "<", "&", "$", "=", "\"", "'"}

ECHO_HI_OUT == <<"e", "c", "h", "o", " ", "h", "i", " ", ">", " ", "o", "u", "t", ".", "t", "x", "t">>
ECHO_A_APPEND == <<"e", "c", "h", "o", " ", "a", " ", ">", ">", " ", "o", "u", "t", ".", "t", "x", "t">>
SET_TEST == <<"s", "e", "t", " ", "T", "E", "S", "T", "=", "v", "a", "l", "u", "e">>
LL_EXTRA == <<"l", "l", " ", "e", "x", "t", "r", "a", "_", "a", "r", "g">>
A_OUT_APPEND == <<"a", ">", "b", ">", ">", "c">>
A_ANDAND_B == <<"a", " ", "&", "&", " ", "b">>
UNTERMINATED == <<"e", "c", "h", "o", " ", "\"", "u", "n", "t", "e", "r", "m", "i", "n", "a", "t", "e", "d">>
TWO_REFERENCES == <<"a", " ", "a", "$", "a", "$", "a", "a">>
BRACED_REFERENCE == <<"a", " ", "$", "{", "a", "}", "a">>

\* longer lines, from the specification's examples and the validation suite
SampleLines ==
    { ECHO_HI_OUT,
      ECHO_A_APPEND,
      SET_TEST,
      LL_EXTRA,
      A_OUT_APPEND,
      A_ANDAND_B,
      UNTERMINATED,
      TWO_REFERENCES,
      BRACED_REFERENCE }

Lines == (UNION {[1..n -> Alphabet] : n \in 0..MaxLen}) \cup SampleLines

\* the inherited process environment
Environ0 == << <<<<"H">>, <<"/", "h">>>> >>

InitVariables == {EmptyDict, << <<<<"a">>, <<"a", " ", "a">>>> >>}

\* names and values given to set_variable and get_variable
VarNames == {<<"a">>, <<"H">>, <<"b">>}
VarValues == {<< >>, <<"v">>, <<"0">>}

\* at most this many set_variable calls on one parser
MaxSets == 2

ParseInit ==
    /\ line \in {Some(l) : l \in Lines} \cup {None}
    /\ variables \in InitVariables
    /\ os_environ = Environ0
    /\ pipeline = None
    /\ pc = "start"
    /\ idx = 0
    /\ processes = << >>
    /\ final_returncode = 0
    /\ result = None
    /\ calls = 0
    /\ current_dir = << >>
    /\ os_cwd = << >>
    /\ environment = EmptyDict
    /\ aliases = EmptyDict
    /\ fs = EmptyDict
    /\ elapsed = 0

\* pipeline = parser.parse(command)
Parse ==
    /\ pc = "start"
    /\ line # None
    /\ LET r == parse(line[1], variables, os_environ)
       IN  /\ pipeline' = Some(r.pipeline)
           /\ variables' = r.variables
    /\ pc' = "parsed"
    /\ UNCHANGED <<line, idx, processes, final_returncode, result, calls, current_dir,
                   os_cwd, environment, os_environ, aliases, fs, elapsed>>

\* set_variable(name, value): self.variables[name] = value
SetVariable(name, value) ==
    /\ line = None
    /\ pc \in {"start", "set", "got"}
    /\ calls < MaxSets
    /\ calls' = calls + 1
    /\ variables' = Put(variables, name, value)
    /\ pc' = "set"
    /\ result' = None
    /\ UNCHANGED <<line, pipeline, idx, processes, final_returncode, current_dir, os_cwd,
                   environment, os_environ, aliases, fs, elapsed>>

\* return self.variables.get(name) or os.environ.get(name)
\* The module does not import os (only two other methods do, locally), so
\* the right operand raises NameError whenever it is evaluated, that is
\* whenever self.variables.get(name) is None or the empty string.
get_variable(svars, name) ==
    LET value == IF HasKey(svars, name) THEN Some(Get(svars, name, << >>)) ELSE None
    IN  IF IsSet(value) /\ value[1] # << >>
        THEN [kind |-> "value", name |-> name, value |-> value]
        ELSE [kind |-> "NameError", name |-> name, value |-> None]

GetVariable(name) ==
    /\ line = None
    /\ pc = "set"
    /\ result' = Some(get_variable(variables, name))
    /\ pc' = "got"
    /\ UNCHANGED <<line, variables, pipeline, idx, processes, final_returncode, calls,
                   current_dir, os_cwd, environment, os_environ, aliases, fs, elapsed>>

ParseNext ==
    \/ Parse
    \/ \E name \in VarNames, value \in VarValues : SetVariable(name, value)
    \/ \E name \in VarNames : GetVariable(name)

ParseSpec == ParseInit /\ [][ParseNext]_vars

(***************************************************************************)
(* The world of the executor: names, paths, files, programs                *)
(***************************************************************************)
CD == <<"c", "d">>
PWD == <<"p", "w", "d">>
SET == <<"s", "e", "t">>
EXPORT == <<"e", "x", "p", "o", "r", "t">>
ALIAS == <<"a", "l", "i", "a", "s">>
ENV == <<"e", "n", "v">>
EXIT == <<"e", "x", "i", "t">>
ECHO == <<"e", "c", "h", "o">>
LS == <<"l", "s">>
CAT == <<"c", "a", "t">>
LL == <<"l", "l">>
NOSUCH == <<"n", "o", "s", "u", "c", "h">>
LS_LA == <<"l", "s", " ", "-", "l", "a">>
EXTRA_ARG == <<"e", "x", "t", "r", "a", "_", "a", "r", "g">>
HOME == <<"/", "h">>
TMP == <<"/", "t">>
LOCKED == <<"/", "l">>
NONEXISTENT == <<"/", "n">>
TILDE == <<"~">>
OUT_TXT == <<"o", "u", "t", ".", "t", "x", "t">>
IN_TXT == <<"i", "n", ".", "t", "x", "t">>
EMPTY_TXT == <<"e", "m", "p", "t", "y", ".", "t", "x", "t">>
MISSING_TXT == <<"m", "i", "s", "s", "i", "n", "g", ".", "t", "x", "t">>
RO_TXT == <<"/", "r", "o">>

\* ShellExecutor.builtin_commands
Builtins == {CD, PWD, SET, EXPORT, ALIAS, ENV, EXIT, ECHO}

\* programs that a spawn finds on the search path
Executables == {LS, CAT, ECHO, PWD, ENV}

\* directories: "dir" can be entered, "locked" exists and is a directory but
\* os.chdir into it raises PermissionError; any other path is not a directory
PathKind(path) ==
    IF path \in {HOME, TMP} THEN "dir"
    ELSE IF path = LOCKED THEN "locked"
    ELSE "other"

\* paths that open() cannot open for writing
Unwritable == {RO_TXT, HOME, TMP, LOCKED}

\* the regular files that exist when the session starts
Files0 == << <<IN_TXT, <<"x">>>>, <<EMPTY_TXT, << >>>> >>

\* an error message is a one-chunk string
Msg(text) == <<text>>

\* Python truthiness of an Optional[str]: neither None nor ""
Truthy(opt) == opt # None /\ opt[1] # << >>

\* a non-empty list is true
NonEmpty(xs) == xs # << >>

(***************************************************************************)
(* ShellState                                                              *)
(***************************************************************************)
\* Path(path).expanduser().resolve()
Resolve(path, cwd) ==
    IF path = TILDE THEN HOME
    ELSE IF path # << >> /\ Head(path) = "/" THEN path
    ELSE IF path = << >> THEN cwd
    ELSE cwd \o <<"/">> \o path

\* the session state as one record
State(cd, oc, en, oe, al) ==
    [current_dir |-> cd, os_cwd |-> oc, environment |-> en, os_environ |-> oe,
     aliases |-> al]

\* change_directory: the flag it returns and the state it leaves
change_directory(st, path) ==
    LET new_path == Resolve(path, st.os_cwd) IN
    IF PathKind(new_path) \in {"dir", "locked"}
    THEN IF PathKind(new_path) = "locked"
         THEN \* os.chdir raises after current_dir was assigned
              [ok |-> FALSE, st |-> [st EXCEPT !.current_dir = new_path]]
         ELSE [ok |-> TRUE,
               st |-> [st EXCEPT !.current_dir = new_path, !.os_cwd = new_path]]
    ELSE [ok |-> FALSE, st |-> st]

set_env(st, name, value) ==
    [st EXCEPT !.environment = Put(@, name, value), !.os_environ = Put(@, name, value)]

add_alias(st, name, command) == [st EXCEPT !.aliases = Put(@, name, command)]

resolve_alias(al, command) == Get(al, command, command)

(***************************************************************************)
(* Builtin commands                                                        *)
(***************************************************************************)
\* the characters in code point order, for sorted()
CodePoints ==
    <<"\t", " ", "\"", "$", "&", "'", "-", ".", "/", "0", "1", "2", "3", "4",
    "5", "6", "7", "8", "9", "<", "=", ">", "A", "B", "C", "D", "E", "F", "G",
    "H", "I", "J", "K", "L", "M", "N", "O", "P", "Q", "R", "S", "T", "U", "V",
    "W", "X", "Y", "Z", "_", "a", "b", "c", "d", "e", "f", "g", "h", "i", "j",
    "k", "l", "m", "n", "o", "p", "q", "r", "s", "t", "u", "v", "w", "x", "y",
    "z", "{", "|", "}", "~">>
Ord(c) == CHOOSE k \in 1..Len(CodePoints) : CodePoints[k] = c

\* a < b for two str
RECURSIVE StrLess(_, _)
StrLess(a, b) ==
    IF b = << >> THEN FALSE
    ELSE IF a = << >> THEN TRUE
    ELSE IF Head(a) = Head(b) THEN StrLess(Tail(a), Tail(b))
    ELSE Ord(Head(a)) < Ord(Head(b))

\* sorted(d.items()): the keys of a dict are distinct
RECURSIVE SortedItems(_)
SortedItems(d) ==
    IF d = << >> THEN << >>
    ELSE LET m == CHOOSE k \in 1..Len(d) :
                      \A j \in 1..Len(d) : j = k \/ StrLess(d[k][1], d[j][1])
         IN  <<d[m]>> \o SortedItems(SubSeq(d, 1, m - 1) \o SubSeq(d, m + 1, Len(d)))

\* "\n".join(f"{k}={v}" for k, v in items)
RECURSIVE Listing(_)
Listing(items) ==
    IF items = << >> THEN << >>
    ELSE LET first == items[1][1] \o <<"=">> \o items[1][2]
         IN  IF Len(items) = 1 THEN first
             ELSE first \o <<"\n">> \o Listing(Tail(items))

\* what a call hands back: a triple, or SystemExit leaving the call
Triple(code, out, err) ==
    [kind |-> "triple", exit_code |-> code, stdout |-> out, stderr |-> err]
SystemExit(code) ==
    [kind |-> "SystemExit", exit_code |-> code, stdout |-> << >>, stderr |-> << >>]

\* the value of a string of decimal digits
RECURSIVE DigitsValue(_)
DigitsValue(s) ==
    IF s = << >> THEN 0
    ELSE 10 * DigitsValue(SubSeq(s, 1, Len(s) - 1)) + (Ord(s[Len(s)]) - Ord("0"))

\* int(text): None stands for ValueError
IntOf(text) ==
    LET body == Strip(text)
        neg  == body # << >> /\ Head(body) = "-"
        num  == IF body # << >> /\ Head(body) \in {"-", "+"} THEN Tail(body) ELSE body
    IN  IF num # << >> /\ \A k \in 1..Len(num) : num[k] \in Digits
        THEN Some(IF neg THEN 0 - DigitsValue(num) ELSE DigitsValue(num))
        ELSE None

builtin_cd(st, args) ==
    LET target == IF ~NonEmpty(args) THEN HOME ELSE args[1]
        r == change_directory(st, target)
    IN  IF r.ok THEN [st |-> r.st, result |-> Triple(0, << >>, << >>)]
        ELSE [st |-> r.st,
              result |-> Triple(1, << >>,
                  Msg("cd: ") \o target \o Msg(": No such file or directory"))]

builtin_pwd(st, args) == [st |-> st, result |-> Triple(0, st.current_dir, << >>)]

builtin_set(st, args) ==
    IF Len(args) < 2 THEN [st |-> st, result |-> Triple(1, << >>, Msg("Usage: set VAR value"))]
    ELSE [st |-> st, result |-> Triple(0, << >>, << >>)]

\* the for loop of _builtin_export
RECURSIVE ExportArgs(_, _)
ExportArgs(st, args) ==
    IF args = << >> THEN st
    ELSE LET arg == Head(args) IN
         IF Contains(arg, "=")
         THEN ExportArgs(set_env(st, Split1(arg, "=")[1], Split1(arg, "=")[2]), Tail(args))
         ELSE IF HasKey(st.environment, arg)
         THEN ExportArgs([st EXCEPT !.os_environ = Put(@, arg, Get(st.environment, arg, << >>))],
                         Tail(args))
         ELSE ExportArgs(st, Tail(args))

builtin_export(st, args) ==
    IF ~NonEmpty(args) THEN [st |-> st, result |-> Triple(0, Listing(st.environment), << >>)]
    ELSE [st |-> ExportArgs(st, args), result |-> Triple(0, << >>, << >>)]

\* the for loop of _builtin_alias
RECURSIVE AliasArgs(_, _)
AliasArgs(st, args) ==
    IF args = << >> THEN st
    ELSE LET arg == Head(args) IN
         IF Contains(arg, "=")
         THEN AliasArgs(add_alias(st, Split1(arg, "=")[1], Split1(arg, "=")[2]), Tail(args))
         ELSE AliasArgs(st, Tail(args))

builtin_alias(st, args) ==
    IF ~NonEmpty(args) THEN [st |-> st, result |-> Triple(0, Listing(st.aliases), << >>)]
    ELSE [st |-> AliasArgs(st, args), result |-> Triple(0, << >>, << >>)]

builtin_env(st, args) ==
    [st |-> st, result |-> Triple(0, Listing(SortedItems(st.environment)), << >>)]

builtin_exit(st, args) ==
    LET exit_code == IF NonEmpty(args) /\ IntOf(args[1]) # None THEN IntOf(args[1])[1] ELSE 0
    IN  [st |-> st, result |-> SystemExit(exit_code)]

builtin_echo(st, args) == [st |-> st, result |-> Triple(0, Join(args), << >>)]

\* self.builtin_commands[command.name](command.args)
RunBuiltin(name, st, args) ==
    IF name = CD THEN builtin_cd(st, args)
    ELSE IF name = PWD THEN builtin_pwd(st, args)
    ELSE IF name = SET THEN builtin_set(st, args)
    ELSE IF name = EXPORT THEN builtin_export(st, args)
    ELSE IF name = ALIAS THEN builtin_alias(st, args)
    ELSE IF name = ENV THEN builtin_env(st, args)
    ELSE IF name = EXIT THEN builtin_exit(st, args)
    ELSE builtin_echo(st, args)

(***************************************************************************)
(* Child processes                                                         *)
(***************************************************************************)
\* where a child reads its stdin from
Inherit == [kind |-> "inherit", data |-> << >>, path |-> << >>, stage |-> 0]
FromPipe(data) == [kind |-> "PIPE", data |-> data, path |-> << >>, stage |-> 0]
FromFile(path) == [kind |-> "file", data |-> << >>, path |-> path, stage |-> 0]
FromStage(k) == [kind |-> "stage", data |-> << >>, path |-> << >>, stage |-> k]

\* where a child writes its stdout to
ToPipe == [kind |-> "PIPE", path |-> << >>, mode |-> ""]
ToFile(path, mode) == [kind |-> "file", path |-> path, mode |-> mode]

\* subprocess.Popen succeeded: the child runs, and the orchestrator holds
\* the read end of its stdout when that is a pipe
Process(argv, env, cwd, stdin, stdout) ==
    [argv |-> argv, env |-> env, cwd |-> cwd, stdin |-> stdin, stdout |-> stdout,
     status |-> "running", returncode |-> 0, stdout_open |-> stdout.kind = "PIPE"]

\* the exception subprocess.Popen raises, "" when it starts the child
PopenError(program, cwd) ==
    IF PathKind(cwd) = "locked" THEN "PermissionError"
    ELSE IF program \notin Executables THEN "FileNotFoundError"
    ELSE ""

\* the timeout of every communicate() and wait(), in seconds
Timeout == 30

\* what a child does before it exits: exit code, stdout and stderr, and how
\* long the wait for it lasts (it exits at once or just inside the timeout)
Behaviours ==
    { [code |-> 0, out |-> <<"o">>, err |-> << >>, seconds |-> 0],
      [code |-> 1, out |-> << >>, err |-> <<"E">>, seconds |-> Timeout - 1],
      [code |-> 2, out |-> <<"o">>, err |-> <<"E">>, seconds |-> Timeout - 1] }

Exited(proc, b) == [proc EXCEPT !.status = "exited", !.returncode = b.code]

\* process.kill(): a child that was already reaped is left alone
Kill(proc) == IF proc.status = "running" THEN [proc EXCEPT !.status = "killed"] ELSE proc

\* no process is killed
KillAll_None(procs) == procs

\* for process in processes: process.kill()
KillAll(procs) == [k \in 1..Len(procs) |-> Kill(procs[k])]

(***************************************************************************)
(* ShellExecutor: one call of execute_pipeline, step by step               *)
(*   pc = "idle"         no call in progress                               *)
(*   pc = "communicate"  _execute_single_command waits in communicate()    *)
(*   pc = "spawn"        _execute_pipeline is about to spawn stage idx     *)
(*   pc = "wait"         _execute_pipeline is about to wait for stage idx  *)
(*   pc = "returned"     the call is over, result holds its outcome        *)
(***************************************************************************)
SessionState == State(current_dir, os_cwd, environment, os_environ, aliases)

SetSession(st) ==
    /\ current_dir' = st.current_dir
    /\ os_cwd' = st.os_cwd
    /\ environment' = st.environment
    /\ os_environ' = st.os_environ
    /\ aliases' = st.aliases

\* the call is over
Returns(res, procs) ==
    /\ pc' = "returned"
    /\ result' = Some(res)
    /\ processes' = procs
    /\ idx' = 0
    /\ final_returncode' = 0

\* the overrides are applied to the session's own dict
PrepareEnv_NoCopy(environ, env_vars) ==
    [child |-> Update(environ, env_vars), state |-> Update(environ, env_vars)]

\* the overrides are dropped
PrepareEnv_NoOverlay(environ, env_vars) ==
    [child |-> environ, state |-> environ]

\* env = self.state.environment.copy(); env.update(command.env_vars):
\* the environment of the child, and ShellState.environment afterwards
PrepareEnv(environ, env_vars) ==
    [child |-> Update(environ, env_vars), state |-> environ]

\* _execute_single_command for an external command, up to communicate():
\* either it returns early (done) or one child is running
StartSingle(command, st, files) ==
    LET resolved_name == resolve_alias(st.aliases, command.name)
        env == PrepareEnv(st.environment, command.env_vars).child
        stdin_input == IF Truthy(command.input_redirect)
                       THEN Some(Get(files, command.input_redirect[1], << >>))
                       ELSE None
        err == PopenError(resolved_name, st.current_dir)
    IN
    IF Truthy(command.input_redirect) /\ ~HasKey(files, command.input_redirect[1])
    THEN [done |-> TRUE, processes |-> << >>,
          result |-> Triple(1, << >>, Msg("Input redirect error"))]
    ELSE IF err = "FileNotFoundError"
    THEN [done |-> TRUE, processes |-> << >>,
          result |-> Triple(1, << >>, Msg("Command not found: ") \o command.name)]
    ELSE IF err # ""
    THEN [done |-> TRUE, processes |-> << >>,
          result |-> Triple(1, << >>, Msg("Command execution error"))]
    ELSE [done |-> FALSE,
          processes |-> << Process(<<resolved_name>> \o command.args, env, st.current_dir,
                                   IF Truthy(stdin_input) THEN FromPipe(stdin_input[1])
                                   ELSE Inherit,
                                   ToPipe) >>,
          result |-> Triple(0, << >>, << >>)]

\* a result other than success for the pipeline without commands
EmptyResult_Failure == Triple(1, << >>, << >>)

\* if not pipeline.commands: return 0, "", ""
EmptyResult == Triple(0, << >>, << >>)

\* the alias of the name is what is looked up among the builtins
DispatchName_AliasFirst(name, al) == resolve_alias(al, name)

\* if command.name in self.builtin_commands: the name as the command
\* carries it, before resolve_alias is called
DispatchName(name, al) == name

\* execute_pipeline(pipeline), up to its first wait or spawn
Begin(p) ==
    LET commands == p.commands
        st == SessionState
    IN
    /\ pipeline' = Some(p)
    /\ elapsed' = 0
    /\ IF ~NonEmpty(commands)
       THEN Returns(EmptyResult, << >>) /\ SetSession(st) /\ fs' = fs
       ELSE IF Len(commands) = 1
       THEN IF DispatchName(commands[1].name, st.aliases) \in Builtins
            THEN LET r == RunBuiltin(DispatchName(commands[1].name, st.aliases), st,
                                     commands[1].args)
                 IN  Returns(r.result, << >>) /\ SetSession(r.st) /\ fs' = fs
            ELSE LET r == StartSingle(commands[1], st, fs)
                 IN  /\ IF r.done THEN Returns(r.result, << >>)
                        ELSE /\ pc' = "communicate"
                             /\ processes' = r.processes
                             /\ UNCHANGED <<result, idx, final_returncode>>
                     /\ SetSession([st EXCEPT !.environment =
                                       PrepareEnv(@, commands[1].env_vars).state])
                     /\ fs' = fs
       ELSE /\ pc' = "spawn"
            /\ idx' = 1
            /\ processes' = << >>
            /\ UNCHANGED <<result, final_returncode>>
            /\ SetSession(st)
            /\ fs' = fs

\* the output redirects of _execute_single_command after communicate()
\* returned stdout: the result and the files afterwards
RedirectOutput(command, code, stdout, stderr, files) ==
    IF Truthy(command.output_redirect)
    THEN IF command.output_redirect[1] \in Unwritable
         THEN [result |-> Triple(1, << >>, Msg("Output redirect error")), fs |-> files]
         ELSE [result |-> Triple(code, << >>, stderr),
               fs |-> Put(files, command.output_redirect[1], stdout)]
    ELSE IF Truthy(command.append_redirect)
    THEN IF command.append_redirect[1] \in Unwritable
         THEN [result |-> Triple(1, << >>, Msg("Append redirect error")), fs |-> files]
         ELSE [result |-> Triple(code, << >>, stderr),
               fs |-> Put(files, command.append_redirect[1],
                          Get(files, command.append_redirect[1], << >>) \o stdout)]
    ELSE [result |-> Triple(code, stdout, stderr), fs |-> files]

\* process.communicate(input=stdin_input, timeout=30) returns: the child
\* has exited with behaviour b
Communicate(b) ==
    /\ pc = "communicate"
    /\ elapsed' = elapsed + b.seconds
    /\ LET r == RedirectOutput(pipeline[1].commands[1], b.code, b.out, b.err, fs)
       IN  /\ Returns(r.result, <<Exited(processes[1], b)>>)
           /\ fs' = r.fs
    /\ UNCHANGED <<line, variables, pipeline, calls, current_dir, os_cwd, environment,
                   os_environ, aliases>>

\* process.communicate raises TimeoutExpired: the child is still running
CommunicateTimeout ==
    /\ pc = "communicate"
    /\ elapsed' = elapsed + Timeout
    /\ Returns(Triple(1, << >>, Msg("Command timed out")), processes)
    /\ UNCHANGED <<line, variables, pipeline, calls, current_dir, os_cwd, environment,
                   os_environ, aliases, fs>>

\* the except clauses of _execute_pipeline: kill every process, return 1
Abort(message) == Returns(Triple(1, << >>, Msg(message)), KillAll(processes))

\* the handle is left open
CloseStdout_Never(procs, k) == procs

\* if i > 0 and processes[i-1].stdout: processes[i-1].stdout.close()
CloseStdout(procs, k) ==
    IF k >= 1 /\ procs[k].stdout_open THEN [procs EXCEPT ![k].stdout_open = FALSE]
    ELSE procs

\* every stage but the first reads what the orchestrator reads
StageStdin_NotConnected(command, k) ==
    IF k = 1 /\ Truthy(command.input_redirect) THEN FromFile(command.input_redirect[1])
    ELSE Inherit

\* Setup stdin: the input redirect of the first command, the stdout of the
\* process before for every other (k = i + 1)
StageStdin(command, k) ==
    IF k = 1
    THEN IF Truthy(command.input_redirect) THEN FromFile(command.input_redirect[1])
         ELSE Inherit
    ELSE FromStage(k - 1)

\* the output redirects of every stage are opened
StageStdout_EveryStage(command, k, n) ==
    IF Truthy(command.output_redirect) THEN ToFile(command.output_redirect[1], "w")
    ELSE IF Truthy(command.append_redirect) THEN ToFile(command.append_redirect[1], "a")
    ELSE ToPipe

\* Setup stdout: the output redirects of the last command of n, a pipe for
\* every other
StageStdout(command, k, n) ==
    IF k = n /\ Truthy(command.output_redirect) THEN ToFile(command.output_redirect[1], "w")
    ELSE IF k = n /\ Truthy(command.append_redirect) THEN ToFile(command.append_redirect[1], "a")
    ELSE ToPipe

\* one iteration of the spawn loop of _execute_pipeline (i = idx - 1)
SpawnStage ==
    /\ pc = "spawn"
    /\ LET commands == pipeline[1].commands
           command == commands[idx]
           first == idx = 1
           last  == idx = Len(commands)
           env == PrepareEnv(environment, command.env_vars).child
           stdin == StageStdin(command, idx)
           stdin_fails == stdin.kind = "file" /\ ~HasKey(fs, stdin.path)
           stdout == StageStdout(command, idx, Len(commands))
           stdout_fails == stdout.kind = "file" /\ stdout.path \in Unwritable
           \* open(path, 'w') truncates, open(path, 'a') creates
           opened == IF stdout.kind # "file" THEN fs
                     ELSE IF stdout.mode = "w" THEN Put(fs, stdout.path, << >>)
                     ELSE Put(fs, stdout.path, Get(fs, stdout.path, << >>))
           resolved_name == resolve_alias(aliases, command.name)
           err == PopenError(resolved_name, current_dir)
       IN
       IF stdin_fails \/ stdout_fails
       THEN Abort("Pipeline execution error") /\ fs' = fs
       ELSE IF err # ""
       THEN Abort("Pipeline execution error") /\ fs' = opened
       ELSE /\ processes' =
                 Append(CloseStdout(processes, idx - 1),
                        Process(<<resolved_name>> \o command.args, env, current_dir,
                                stdin, stdout))
            /\ fs' = opened
            /\ IF last THEN pc' = "wait" /\ idx' = 1 /\ final_returncode' = 0
               ELSE pc' = "spawn" /\ idx' = idx + 1 /\ final_returncode' = final_returncode
            /\ result' = result
    /\ environment' = PrepareEnv(environment, pipeline[1].commands[idx].env_vars).state
    /\ UNCHANGED <<line, variables, pipeline, calls, current_dir, os_cwd, os_environ,
                   aliases, elapsed>>

\* one iteration of the wait loop of _execute_pipeline: the child has exited
\* with behaviour b
WaitStage(b) ==
    /\ pc = "wait"
    /\ elapsed' = elapsed + b.seconds
    /\ LET proc == processes[idx]
           last == idx = Len(processes)
           waited == [processes EXCEPT ![idx] = Exited(proc, b)]
           \* a child that writes to a file leaves its output there
           written == IF proc.stdout.kind # "file" THEN fs
                      ELSE Put(fs, proc.stdout.path,
                               Get(fs, proc.stdout.path, << >>) \o b.out)
       IN
       IF last
       THEN /\ Returns(Triple(b.code,
                              IF proc.stdout.kind = "PIPE" THEN b.out ELSE << >>,
                              b.err),
                       waited)
            /\ fs' = written
       ELSE /\ pc' = "wait"
            /\ idx' = idx + 1
            /\ processes' = waited
            /\ final_returncode' = IF b.code # 0 THEN b.code ELSE final_returncode
            /\ result' = result
            /\ fs' = fs
    /\ UNCHANGED <<line, variables, pipeline, calls, current_dir, os_cwd, environment,
                   os_environ, aliases>>

\* process.wait or process.communicate raises TimeoutExpired
WaitTimeout ==
    /\ pc = "wait"
    /\ elapsed' = elapsed + Timeout
    /\ Abort("Pipeline timed out")
    /\ UNCHANGED <<line, variables, pipeline, calls, current_dir, os_cwd, environment,
                   os_environ, aliases, fs>>

(***************************************************************************)
(* The executor's callers and the pipelines they submit                    *)
(***************************************************************************)
MaxCalls == 2
MaxCmds == 3

Command(name, args, env_vars, redirects) ==
    [name |-> name, args |-> args, env_vars |-> env_vars,
     input_redirect |-> redirects[1], output_redirect |-> redirects[2],
     append_redirect |-> redirects[3], is_background |-> FALSE]

NoRedirects == <<None, None, None>>

\* <<input_redirect, output_redirect, append_redirect>> of a single command
RedirectCombos ==
    { NoRedirects,
      <<Some(IN_TXT), None, None>>,
      <<Some(EMPTY_TXT), None, None>>,
      <<Some(MISSING_TXT), None, None>>,
      <<None, Some(OUT_TXT), None>>,
      <<None, Some(RO_TXT), None>>,
      <<None, None, Some(OUT_TXT)>>,
      <<None, None, Some(RO_TXT)>>,
      <<Some(IN_TXT), Some(OUT_TXT), Some(OUT_TXT)>> }

ArgLists ==
    { << >>, <<TMP>>, <<NONEXISTENT>>, <<LOCKED>>, <<EXTRA_ARG>>, <<<<"3">>>>,
      <<<<"A", "=", "1">>>>, <<<<"T">>, <<"v">>>>, <<<<"c", "d", "=", "l", "s">>>> }

EnvOverrides == {EmptyDict, << <<<<"A">>, <<"2">>>> >>}

\* builtins take any argument list; their redirect fields and environment
\* overrides are set or not
BuiltinCommands ==
    { Command(n, a, e, r) :
        n \in Builtins, a \in ArgLists, e \in {EmptyDict},
        r \in {NoRedirects, <<Some(IN_TXT), Some(OUT_TXT), Some(OUT_TXT)>>} }

ExternalCommands ==
    { Command(n, a, e, r) :
        n \in {LL, LS, NOSUCH}, a \in {<< >>, <<EXTRA_ARG>>}, e \in EnvOverrides,
        r \in RedirectCombos }

\* the stages of a multi-command pipeline all carry the same redirect fields
StageRedirects ==
    { NoRedirects,
      <<Some(IN_TXT), Some(OUT_TXT), None>>,
      <<Some(IN_TXT), None, Some(OUT_TXT)>>,
      <<None, Some(RO_TXT), None>>,
      <<Some(MISSING_TXT), None, None>> }

StageNames == {LS, ECHO, NOSUCH}

MultiCommands ==
    { [k \in 1..Len(names) |-> Command(names[k], << >>, EmptyDict, r)] :
        names \in UNION {[1..n -> StageNames] : n \in 2..MaxCmds},
        r \in StageRedirects }

\* pipelines whose stages carry redirect fields of their own: an output
\* redirect on the first stage and an input redirect on the last; all three
\* redirects, to a missing and to an unwritable file, on the middle stage
MixedCommands ==
    { << Command(LS, << >>, EmptyDict, <<None, Some(OUT_TXT), None>>),
         Command(LS, << >>, EmptyDict, <<Some(MISSING_TXT), None, None>>) >>,
      << Command(LS, << >>, EmptyDict, NoRedirects),
         Command(LS, << >>, EmptyDict, <<Some(MISSING_TXT), Some(RO_TXT), Some(OUT_TXT)>>),
         Command(LS, << >>, EmptyDict, NoRedirects) >> }

Pipelines ==
    { Pipeline(<< >>) }
    \cup { Pipeline(<<c>>) : c \in BuiltinCommands \cup ExternalCommands }
    \cup { Pipeline(cs) : cs \in MultiCommands \cup MixedCommands }

\* lines typed at the shell
BLANK == <<" ", " ">>
LS_ANDAND_LS == <<"l", "s", " ", "&", "&", " ", "l", "s">>

ExecLines == {ECHO_HI_OUT, ECHO_A_APPEND, SET_TEST, LL_EXTRA, LS_ANDAND_LS, << >>, BLANK}

\* the aliases kept by the configuration, in the order they are stored
ConfigAliases == << <<LL, LS_LA>>, <<LS, CAT>>, <<CD, LS>> >>

\* the loop of add_alias calls over the configured aliases
RECURSIVE AddAliases(_, _)
AddAliases(st, defs) ==
    IF defs = << >> THEN st
    ELSE AddAliases(add_alias(st, Head(defs)[1], Head(defs)[2]), Tail(defs))

Init ==
    /\ line = None
    /\ variables = EmptyDict
    /\ os_environ = Environ0
    /\ pipeline = None
    /\ pc = "idle"
    /\ idx = 0
    /\ processes = << >>
    /\ final_returncode = 0
    /\ result = None
    /\ calls = 0
    /\ current_dir = HOME
    /\ os_cwd = HOME
    /\ environment = Environ0
    /\ aliases = EmptyDict
    /\ fs = Files0
    /\ elapsed = 0

\* executor.execute_pipeline(p) called with a Pipeline
Execute(p) ==
    /\ pc = "idle"
    /\ calls < MaxCalls
    /\ calls' = calls + 1
    /\ line' = None
    /\ variables' = variables
    /\ Begin(p)

\* shell.run(command): parse the line and execute the pipeline unless it has
\* no commands
RunLine(l) ==
    /\ pc = "idle"
    /\ calls < MaxCalls
    /\ calls' = calls + 1
    /\ line' = Some(l)
    /\ LET r == parse(l, variables, os_environ)
       IN  /\ variables' = r.variables
           /\ IF NonEmpty(r.pipeline.commands) THEN Begin(r.pipeline)
              ELSE /\ pipeline' = Some(r.pipeline)
                   /\ pc' = "returned"
                   /\ UNCHANGED <<idx, processes, final_returncode, result, current_dir,
                                  os_cwd, environment, os_environ, aliases, fs, elapsed>>

\* MCPAgent._execute_shell_command(command), as validate.shell does: parse
\* the line and execute whatever Pipeline comes back
ExecuteShellCommand(l) ==
    /\ pc = "idle"
    /\ calls < MaxCalls
    /\ calls' = calls + 1
    /\ line' = Some(l)
    /\ LET r == parse(l, variables, os_environ)
       IN  /\ variables' = r.variables
           /\ Begin(r.pipeline)

\* shell.interactive: for alias_name, alias_cmd in config.get_aliases().items():
\*     executor.state.add_alias(alias_name, alias_cmd)
LoadAliases ==
    /\ pc = "idle"
    /\ aliases = EmptyDict
    /\ aliases' = AddAliases(SessionState, ConfigAliases).aliases
    /\ UNCHANGED <<line, variables, pipeline, pc, idx, processes, final_returncode,
                   result, calls, current_dir, os_cwd, environment, os_environ, fs,
                   elapsed>>

\* the caller has consumed the outcome; the locals of the call are gone
Return ==
    /\ pc = "returned"
    /\ pc' = "idle"
    /\ line' = None
    /\ pipeline' = None
    /\ result' = None
    /\ processes' = << >>
    /\ elapsed' = 0
    /\ UNCHANGED <<variables, idx, final_returncode, calls, current_dir, os_cwd,
                   environment, os_environ, aliases, fs>>

Next ==
    \/ \E p \in Pipelines : Execute(p)
    \/ \E l \in ExecLines : RunLine(l)
    \/ \E l \in ExecLines : ExecuteShellCommand(l)
    \/ LoadAliases
    \/ \E b \in Behaviours : Communicate(b)
    \/ CommunicateTimeout
    \/ SpawnStage
    \/ \E b \in Behaviours : WaitStage(b)
    \/ WaitTimeout
    \/ Return

Spec == Init /\ [][Next]_vars

\* Every communicate() and wait() of the executor carries timeout=30: it
\* returns when the child has exited or raises TimeoutExpired, and the spawn
\* loop does not block; so a call in progress always takes its next step.
FairSpec ==
    /\ Spec
    /\ WF_vars((\E b \in Behaviours : Communicate(b)) \/ CommunicateTimeout)
    /\ WF_vars(SpawnStage)
    /\ WF_vars((\E b \in Behaviours : WaitStage(b)) \/ WaitTimeout)

(***************************************************************************)
(* Properties of the executor (checked under Spec)                         *)
(***************************************************************************)
Returned == pc = "returned" /\ result # None
Outcome == result[1]
Called == pipeline[1].commands

\* a multi-command call has returned and every stage was spawned and exited
AllStagesExited ==
    /\ Returned
    /\ Len(Called) >= 2
    /\ Len(processes) = Len(Called)
    /\ \A k \in 1..Len(processes) : processes[k].status = "exited"

UpstreamFailures == {k \in 1..(Len(processes) - 1) : processes[k].returncode # 0}

FirstUpstreamFailure == CHOOSE k \in UpstreamFailures : \A j \in UpstreamFailures : k <= j

\* C1: when every stage of a multi-command pipeline exits, the exit code
\* returned is the last command's if every upstream command exited 0, and
\* otherwise the exit code of the first upstream command that exited non-zero.
C1_FirstFailureWins ==
    AllStagesExited =>
        Outcome.exit_code =
            IF UpstreamFailures = {} THEN processes[Len(processes)].returncode
            ELSE processes[FirstUpstreamFailure].returncode

TimedOut ==
    /\ Returned
    /\ Outcome.stderr \in {Msg("Command timed out"), Msg("Pipeline timed out")}

\* C2: when a wait exceeds the timeout the call reports the timed-out result
\* and none of the processes it spawned is still running when it returns,
\* for a single command as for a multi-command pipeline.
C2_TimeoutKillsEveryProcess ==
    TimedOut => \A k \in 1..Len(processes) : processes[k].status # "running"

\* C3: every call of execute_pipeline hands an (exit_code, stdout, stderr)
\* triple back to its caller; nothing else leaves the call.
C3_AlwaysReturnsTriple == Returned => Outcome.kind = "triple"

\* C4: a command named after a builtin is never spawned as a child process,
\* in a pipeline of any length, and running a builtin leaves every file as
\* it was (processes[k] is the child spawned for command k of the call).
C4_BuiltinsNeverSpawned ==
    [][ /\ pipeline' # None =>
              \A k \in 1..Len(processes') : pipeline'[1].commands[k].name \notin Builtins
        /\ ( /\ pc = "idle"
             /\ pipeline' # None
             /\ Len(pipeline'[1].commands) = 1
             /\ pipeline'[1].commands[1].name \in Builtins ) => fs' = fs
      ]_vars

\* C5: running the line  echo hi > out.txt  returns empty stdout and leaves
\* out.txt holding the output of the command.
C5_EchoRedirected ==
    (Returned /\ line = Some(ECHO_HI_OUT)) =>
        /\ Outcome.stdout = << >>
        /\ HasKey(fs, OUT_TXT)
        /\ Get(fs, OUT_TXT, << >>) \in {<<"h", "i">>, <<"h", "i", "\n">>}

\* C6: each run of the line  echo a >> out.txt  returns empty stdout and
\* appends the output of the command to what out.txt held before the run, so
\* that two runs in succession leave both outputs in the file.
C6_EchoAppended ==
    [][ (pc = "idle" /\ pc' = "returned" /\ line' = Some(ECHO_A_APPEND)) =>
            /\ result' # None
            /\ result'[1].stdout = << >>
            /\ HasKey(fs', OUT_TXT)
            /\ \E out \in {<<"a">>, <<"a", "\n">>} :
                   Get(fs', OUT_TXT, << >>) = Get(fs, OUT_TXT, << >>) \o out
      ]_vars

\* C7: whenever the cd builtin fails (exit code not 0) current_dir is the
\* same after the call as before it.
C7_FailedCdKeepsDirectory ==
    [][ ( /\ pc = "idle"
          /\ pc' = "returned"
          /\ pipeline' # None
          /\ Len(pipeline'[1].commands) = 1
          /\ pipeline'[1].commands[1].name = CD
          /\ result'[1].exit_code # 0 ) => current_dir' = current_dir
      ]_vars

\* C8: with the alias ll -> "ls -la", running the line  ll extra_arg  spawns
\* the program ls with the arguments -la and extra_arg, in this order (and
\* not what the alias table holds for ls).
C8_AliasKeepsArguments ==
    (Returned /\ line = Some(LL_EXTRA) /\ Get(aliases, LL, LL) = LS_LA) =>
        /\ Len(processes) = 1
        /\ processes[1].argv = <<LS, <<"-", "l", "a">>, EXTRA_ARG>>

\* the call runs a builtin: a single command named after one
RunsBuiltin(p) == Len(p.commands) = 1 /\ p.commands[1].name \in Builtins

\* C12: a call that does not run a builtin leaves current_dir, environment
\* and aliases as they were at every step, whether it completes, fails or
\* times out, and hands a result triple back so that the caller goes on to
\* the next pipeline.
C12_ExternalKeepsSession ==
    /\ []( (Returned /\ ~RunsBuiltin(pipeline[1])) => Outcome.kind = "triple" )
    /\ [][ (pipeline' # None /\ pc' # "idle" /\ ~RunsBuiltin(pipeline'[1])) =>
               /\ current_dir' = current_dir
               /\ environment' = environment
               /\ aliases' = aliases
         ]_vars

\* the second call of a session spawned a child with an environment override
\* and timed out; the session is as it was at the start
C12_Witness ==
    /\ Returned
    /\ calls = 2
    /\ Len(Called) = 1
    /\ ~RunsBuiltin(pipeline[1])
    /\ Called[1].env_vars # EmptyDict
    /\ Outcome.stderr = Msg("Command timed out")
    /\ current_dir = HOME
    /\ environment = Environ0
    /\ aliases = EmptyDict

VAR_A == <<"A">>

\* child is base overlaid with over: the names of both, the value of over
\* where it has the name
Overlaid(child, base, over) ==
    /\ Keys(child) = Keys(base) \cup Keys(over)
    /\ \A name \in Keys(child) :
           Get(child, name, None) =
               IF HasKey(over, name) THEN Get(over, name, None) ELSE Get(base, name, None)

\* the step runs the builtin  export A=1
ExportsA ==
    /\ pc = "idle"
    /\ pipeline' # None
    /\ RunsBuiltin(pipeline'[1])
    /\ pipeline'[1].commands[1].name = EXPORT
    /\ pipeline'[1].commands[1].args = <<<<"A", "=", "1">>>>

\* C13: the environment of a child is ShellState.environment as it is at the
\* step that spawns the child, overlaid with the env_vars of its command;
\* that step leaves ShellState.environment as it was; no later step changes
\* the environment of a child already spawned; and  export A=1  sets A in
\* ShellState.environment, from where the next spawn takes it.
C13_ChildEnvIsSnapshot ==
    [][ /\ Len(processes') = Len(processes) + 1 =>
              /\ Overlaid(processes'[Len(processes')].env, environment,
                          pipeline'[1].commands[Len(processes')].env_vars)
              /\ environment' = environment
        /\ \A k \in 1..Len(processes) :
              k <= Len(processes') => processes'[k].env = processes[k].env
        /\ ExportsA => Get(environment', VAR_A, None) = <<"1">>
      ]_vars

\* after  export A=1  a child was spawned with the override A=2: the child
\* has A=2 and the inherited H, the session still has A=1
C13_Witness ==
    /\ pc = "communicate"
    /\ Len(processes) = 1
    /\ Get(processes[1].env, VAR_A, None) = <<"2">>
    /\ Get(processes[1].env, <<"H">>, None) = HOME
    /\ Get(environment, VAR_A, None) = <<"1">>

\* after  export A=1  a child was spawned without overrides and has A=1
C13_ExportVisible ==
    /\ pc = "communicate"
    /\ Len(processes) = 1
    /\ Called[1].env_vars = EmptyDict
    /\ Get(processes[1].env, VAR_A, None) = <<"1">>

\* stage k of the multi-command call in progress cannot be started: its
\* program does not exist or cannot run in the current directory, or the
\* file of the first stage's input redirect or of the last stage's output
\* redirect cannot be opened
CannotStart(k) ==
    LET command == Called[k] IN
    \/ resolve_alias(aliases, command.name) \notin Executables
    \/ PathKind(current_dir) = "locked"
    \/ k = 1 /\ IsSet(command.input_redirect) /\ ~HasKey(fs, command.input_redirect[1])
    \/ k = Len(Called) /\ IsSet(command.output_redirect)
                       /\ command.output_redirect[1] \in Unwritable
    \/ k = Len(Called) /\ ~IsSet(command.output_redirect) /\ IsSet(command.append_redirect)
                       /\ command.append_redirect[1] \in Unwritable

\* C14: when the stage about to be spawned in a multi-command pipeline cannot
\* be started, the call returns at once a triple with a non-zero exit code,
\* no further process is spawned and none of the processes spawned before is
\* left running; and a call that returned before spawning all its stages has
\* no process running.
C14_FailedSpawnAborts ==
    /\ []( (Returned /\ Len(Called) >= 2 /\ Len(processes) < Len(Called)) =>
               \A k \in 1..Len(processes) : processes[k].status # "running" )
    /\ [][ (pc = "spawn" /\ CannotStart(idx)) =>
               /\ pc' = "returned"
               /\ result' # None
               /\ result'[1].kind = "triple"
               /\ result'[1].exit_code # 0
               /\ Len(processes') = Len(processes)
               /\ \A k \in 1..Len(processes') : processes'[k].status # "running"
         ]_vars

\* the third stage of a pipeline could not be started: the call returned a
\* failure and the two stages spawned before it were killed
C14_Witness ==
    /\ Returned
    /\ Len(Called) = 3
    /\ Len(processes) = 2
    /\ \A k \in 1..2 : processes[k].status = "killed"
    /\ Outcome.kind = "triple"
    /\ Outcome.exit_code = 1
    /\ Outcome.stderr = Msg("Pipeline execution error")

\* C15: a blank or whitespace-only line parses to a Pipeline without
\* commands; a call of execute_pipeline with a Pipeline without commands
\* returns (0, "", ""), spawns no process and leaves the session state and
\* the files as they were.
C15_EmptyPipelineIsNoOp ==
    /\ []( (pc = "returned" /\ line # None /\ Strip(line[1]) = << >>) =>
               pipeline[1].commands = << >> )
    /\ []( (Returned /\ Called = << >>) =>
               /\ Outcome.kind = "triple"
               /\ Outcome.exit_code = 0
               /\ Outcome.stdout = << >>
               /\ Outcome.stderr = << >>
               /\ processes = << >> )
    /\ [][ (pc = "idle" /\ pipeline' # None /\ pipeline'[1].commands = << >>) =>
               /\ pc' = "returned"
               /\ processes' = << >>
               /\ UNCHANGED <<current_dir, os_cwd, environment, os_environ, aliases, fs>>
         ]_vars

\* a whitespace-only line was parsed and the Pipeline executed, in a session
\* that has aliases: zero commands, exit code 0
C15_Witness ==
    /\ Returned
    /\ line = Some(BLANK)
    /\ Called = << >>
    /\ Outcome.exit_code = 0
    /\ aliases # EmptyDict

\* C16: the line  set TEST=value , parsed and executed, runs the set builtin
\* with the single argument TEST=value and returns exit code 0.
C16_SetNameValueSucceeds ==
    (Returned /\ line = Some(SET_TEST)) =>
        /\ Len(Called) = 1
        /\ Called[1].name = SET
        /\ Len(Called[1].args) = 1
        /\ Outcome.exit_code = 0

\* execute_pipeline has children to spawn or to wait for
InCall == pc \in {"communicate", "spawn", "wait"}

\* the call runs the exit builtin
RunsExit(p) == RunsBuiltin(p) /\ p.commands[1].name = EXIT

\* the processes of the call are the children of its first commands, one
\* each and in order
OneProcessPerCommand ==
    pipeline # None =>
        /\ Len(processes) <= Len(Called)
        /\ \A k \in 1..Len(processes) :
               processes[k].argv = <<resolve_alias(aliases, Called[k].name)>> \o Called[k].args

\* within a call a step spawns at most one child and keeps the children
\* spawned before; an outcome, once there, stays until the caller takes it
NoRespawnOneOutcome ==
    /\ (pc # "idle" /\ pc' # "idle") =>
           /\ Len(processes') \in {Len(processes), Len(processes) + 1}
           /\ \A k \in 1..Len(processes) : processes'[k].argv = processes[k].argv
    /\ (result # None /\ pc' # "idle") => result' = result

\* C18: every call of execute_pipeline with a non-empty pipeline ends in one
\* outcome, a triple handed back to the caller, whatever its children do (a
\* child that never exits runs into the timeout); and no command of the call
\* is spawned twice.
C18_EveryCallEndsOnce ==
    /\ []( (Returned /\ Called # << >>) => Outcome.kind = "triple" )
    /\ (InCall ~> Returned)
    /\ []OneProcessPerCommand
    /\ [][NoRespawnOneOutcome]_vars

\* the same for every call but those of the exit builtin
C18_ExceptExit ==
    /\ []( (Returned /\ Called # << >> /\ ~RunsExit(pipeline[1])) => Outcome.kind = "triple" )
    /\ (InCall ~> Returned)
    /\ []OneProcessPerCommand
    /\ [][NoRespawnOneOutcome]_vars

\* C19: the time a multi-command call spends waiting for its stages never
\* exceeds the one timeout, at any moment of the call and when it returns.
C19_OneTimeoutForThePipeline ==
    (pipeline # None /\ Len(Called) >= 2) => elapsed <= Timeout

MultiCall == pipeline # None /\ Len(pipeline[1].commands) >= 2

\* C21: in a multi-command call the processes are the children of the first
\* commands of the pipeline in order, each spawn step adds the child of the
\* next command, every child but the first reads the stdout pipe of the
\* child before it, and no child is waited for before the last is spawned.
C21_SpawnedLeftToRight ==
    /\ []( MultiCall =>
               /\ Len(processes) <= Len(Called)
               /\ \A k \in 1..Len(processes) :
                      processes[k].argv[1] = resolve_alias(aliases, Called[k].name)
               /\ \A k \in 2..Len(processes) :
                      /\ processes[k].stdin.kind = "stage"
                      /\ processes[k].stdin.stage = k - 1
                      /\ processes[k - 1].stdout.kind = "PIPE"
               /\ (pc = "wait" \/ \E k \in 1..Len(processes) : processes[k].status = "exited")
                      => Len(processes) = Len(Called) )
    /\ [][ (pc = "spawn" /\ pc' \in {"spawn", "wait"}) =>
               /\ Len(processes') = idx
               /\ Len(processes) = idx - 1
               /\ \A k \in 1..Len(processes) : processes'[k].argv = processes[k].argv
         ]_vars

\* the three stages of a pipeline are spawned and none was waited for yet
C21_Witness ==
    /\ pc = "wait"
    /\ idx = 1
    /\ Len(processes) = 3
    /\ \A k \in 1..3 : processes[k].status = "running"
    /\ processes[2].stdin.stage = 1
    /\ processes[3].stdin.stage = 2

\* the file the last command of the pipeline p redirects its output to
\* (None: it has no output or append redirect)
LastTarget(p) ==
    LET command == p.commands[Len(p.commands)] IN
    IF Truthy(command.output_redirect) THEN command.output_redirect
    ELSE IF Truthy(command.append_redirect) THEN command.append_redirect
    ELSE None

\* the files whose existence or contents differ between f and g
Changed(f, g) ==
    {path \in Keys(f) \cup Keys(g) :
        HasKey(f, path) # HasKey(g, path) \/ Get(f, path, << >>) # Get(g, path, << >>)}

\* C22: in a multi-command call only the first child can read a file, the
\* one of its command's input redirect, and only the last child can write a
\* file, the one of its command's output or append redirect; no step of the
\* call changes any other file; and when the last child has exited the call
\* returns the stderr of that child, and its stdout or, with an output or
\* append redirect on the last command, the empty string.
C22_OnlyOuterRedirects ==
    /\ []( MultiCall =>
               \A k \in 1..Len(processes) :
                   /\ processes[k].stdin.kind = "file" =>
                          k = 1 /\ Some(processes[k].stdin.path) = Called[1].input_redirect
                   /\ processes[k].stdout.kind = "file" =>
                          k = Len(Called) /\ Some(processes[k].stdout.path) = LastTarget(pipeline[1]) )
    /\ [][ (pipeline' # None /\ Len(pipeline'[1].commands) >= 2 /\ pc' # "idle") =>
               /\ \A path \in Changed(fs, fs') : Some(path) = LastTarget(pipeline'[1])
               /\ ( /\ pc = "wait"
                    /\ pc' = "returned"
                    /\ processes'[Len(processes')].status = "exited" ) =>
                      \E b \in Behaviours :
                          /\ b.code = processes'[Len(processes')].returncode
                          /\ result'[1].stderr = b.err
                          /\ result'[1].stdout =
                                 IF IsSet(LastTarget(pipeline'[1])) THEN << >> ELSE b.out
         ]_vars

\* a pipeline whose middle stage carries all three redirects has completed:
\* the stdout of the last child is returned and every file is as it was
C22_Witness ==
    /\ Returned
    /\ Len(Called) = 3
    /\ IsSet(Called[2].input_redirect)
    /\ IsSet(Called[2].output_redirect)
    /\ IsSet(Called[2].append_redirect)
    /\ \A k \in 1..Len(processes) : processes[k].status = "exited"
    /\ Len(processes) = 3
    /\ Outcome.stdout = <<"o">>
    /\ fs = Files0

\* the call runs one external command with an input redirect
SingleWithInput ==
    /\ pipeline # None
    /\ Len(Called) = 1
    /\ ~RunsBuiltin(pipeline[1])
    /\ IsSet(Called[1].input_redirect)

\* C23: while a single external command with an input redirect to a
\* readable file runs, the stdin of its child is a pipe carrying exactly the
\* contents of that file, whatever they are; and when the file cannot be
\* read the call returns a failure and has spawned no child.
C23_StdinIsFileContents ==
    /\ (SingleWithInput /\ pc = "communicate") =>
           /\ HasKey(fs, Called[1].input_redirect[1])
           /\ processes[1].stdin.kind = "PIPE"
           /\ processes[1].stdin.data = Get(fs, Called[1].input_redirect[1], << >>)
    /\ (SingleWithInput /\ Returned /\ ~HasKey(fs, Called[1].input_redirect[1])) =>
           /\ Outcome.exit_code # 0
           /\ processes = << >>

\* the tokens of l hold && or || and no pipe
HasAndOrButNoPipe(l) ==
    LET tokens == tokenize(l) IN
    /\ \E k \in 1..Len(tokens) : tokens[k].value \in {<<"&", "&">>, <<"|", "|">>}
    /\ \A k \in 1..Len(tokens) : tokens[k].type # "PIPE"

\* C28: while a line with && or || and without a pipe is executed, no child
\* reads the stdout of another child and no child has && or || among its
\* arguments.
C28_OnlyPipesConnect ==
    (line # None /\ HasAndOrButNoPipe(line[1])) =>
        \A k \in 1..Len(processes) :
            /\ processes[k].stdin.kind # "stage"
            /\ \A a \in 1..Len(processes[k].argv) :
                   processes[k].argv[a] \notin {<<"&", "&">>, <<"|", "|">>}

\* the file the command's output goes to cannot be opened for writing
UnopenableTarget(command) ==
    IF Truthy(command.output_redirect) THEN command.output_redirect[1] \in Unwritable
    ELSE Truthy(command.append_redirect) /\ command.append_redirect[1] \in Unwritable

\* C29: a single external command, or the last command of a pipeline of
\* several, whose output or append target cannot be opened is never started:
\* at no moment of the call is there a child for it.
C29_UnopenableTargetNeverRuns ==
    (pipeline # None /\ NonEmpty(Called)) =>
        LET n == Len(Called) IN
        ((n = 1 => Called[1].name \notin Builtins) /\ UnopenableTarget(Called[n])) =>
            Len(processes) < n

\* C30: a call with a single command named after a builtin runs that builtin
\* in the orchestrator, whatever aliases were defined before, an alias with
\* the builtin's own name included: no child is started, and the outcome
\* and the session afterwards are those of the builtin applied to the
\* command's arguments.
C30_BuiltinBeforeAlias ==
    [][ (pc = "idle" /\ pipeline' # None /\ RunsBuiltin(pipeline'[1])) =>
            LET command == pipeline'[1].commands[1]
                r == RunBuiltin(command.name, SessionState, command.args)
            IN  /\ pc' = "returned"
                /\ processes' = << >>
                /\ result' = Some(r.result)
                /\ State(current_dir', os_cwd', environment', os_environ', aliases') = r.st
      ]_vars

\* cd has an alias and a call of cd /t has changed the directory
C30_Witness ==
    /\ Returned
    /\ RunsBuiltin(pipeline[1])
    /\ Called[1].name = CD
    /\ Called[1].args = <<TMP>>
    /\ HasKey(aliases, CD)
    /\ Get(aliases, CD, << >>) = LS
    /\ processes = << >>
    /\ current_dir = TMP

(***************************************************************************)
(* Properties of the parser (checked under ParseSpec)                      *)
(***************************************************************************)
Parsed == pc = "parsed"
Commands == pipeline[1].commands

\* the line contains none of | > >> <
NoOperatorChars(l) == \A k \in 1..Len(l) : l[k] \notin {"|", ">", "<"}

HasAndAnd(l) == \E k \in 1..(Len(l) - 1) : l[k] = "&" /\ l[k + 1] = "&"

\* the line is not blank and its first non-blank character is neither $ nor &
StartsWithWord(l) == LStrip(l) # << >> /\ Head(LStrip(l)) \notin {"$", "&"}

RedirectsUnset(cmd) ==
    /\ cmd.input_redirect = None
    /\ cmd.output_redirect = None
    /\ cmd.append_redirect = None

\* C9 as stated: a line with none of | > >> < parses to exactly one Command
\* whose three redirect fields are unset.
C9_ExactlyOneCommand ==
    (Parsed /\ NoOperatorChars(line[1])) =>
        (Len(Commands) = 1 /\ RedirectsUnset(Commands[1]))

\* C9 amended: for a line with none of | > >> <, every Command of the
\* Pipeline has its three redirect fields unset; and if the line has no &&
\* the Pipeline has at most one Command, exactly one when the line is not
\* blank and its first non-blank character is neither $ nor &.
C9_NoOperatorsNoRedirects ==
    (Parsed /\ NoOperatorChars(line[1])) =>
        /\ \A k \in 1..Len(Commands) : RedirectsUnset(Commands[k])
        /\ ~HasAndAnd(line[1]) =>
              /\ Len(Commands) <= 1
              /\ (Len(Commands) = 1) <=> StartsWithWord(line[1])

\* a line without operators was parsed into one command with an argument and
\* the background flag
C9_Witness ==
    /\ Parsed
    /\ NoOperatorChars(line[1])
    /\ Len(Commands) = 1
    /\ Len(Commands[1].args) = 1
    /\ Commands[1].is_background

\* C10: every Command produced by parse has at most one of output_redirect
\* and append_redirect set.
C10_AtMostOneOutputRedirect ==
    Parsed =>
        \A k \in 1..Len(Commands) :
            ~(IsSet(Commands[k].output_redirect) /\ IsSet(Commands[k].append_redirect))

\* C11: the Pipeline returned by parse has is_background set exactly when at
\* least one of its commands has is_background set; a Pipeline without
\* commands has it unset.
C11_BackgroundIsOr ==
    Parsed =>
        /\ pipeline[1].is_background <=>
               (\E k \in 1..Len(Commands) : Commands[k].is_background)
        /\ Commands = << >> => ~pipeline[1].is_background

\* a line was parsed into two commands of which only the first carries the
\* background flag, and the Pipeline is a background one
C11_Witness ==
    /\ Parsed
    /\ Len(Commands) = 2
    /\ Commands[1].is_background
    /\ ~Commands[2].is_background
    /\ pipeline[1].is_background

\* C17: get_variable(name) called after set_variable(name, value) returns
\* value: when get_variable is over, for a name the parser holds, its outcome
\* is the value held.
C17_GetReturnsWhatWasSet ==
    (pc = "got" /\ HasKey(variables, result[1].name)) =>
        /\ result[1].kind = "value"
        /\ result[1].value = Some(Get(variables, result[1].name, << >>))

\* word is NAME=value: an identifier, the first = of the word, and a value
\* of letters and digits
IsAssignmentWord(word) ==
    /\ Contains(word, "=")
    /\ LET name  == Split1(word, "=")[1]
           value == Split1(word, "=")[2]
       IN  /\ name # << >>
           /\ IsIdentStart(name[1])
           /\ \A k \in 1..Len(name) : IsIdentChar(name[k])
           /\ \A k \in 1..Len(value) : value[k] \in Letters \cup Digits

AssignedName(word) == Split1(word, "=")[1]
AssignedValue(word) == Split1(word, "=")[2]

\* l is a command word of letters, one blank and an assignment word
IsCommandWithAssignment(l) ==
    /\ Contains(l, " ")
    /\ LET cmd  == Split1(l, " ")[1]
           word == Split1(l, " ")[2]
       IN  /\ cmd # << >>
           /\ \A k \in 1..Len(cmd) : cmd[k] \in Letters
           /\ IsAssignmentWord(word)

\* C24: parsing a line that is one NAME=value word yields no command and
\* stores value under NAME in the parser's variables; parsing a command word
\* followed by a NAME=value word yields that one command with value under
\* NAME in its env_vars and leaves the parser's variables as they were.
C24_AssignmentWords ==
    [][ (pc = "start" /\ pc' = "parsed") =>
            /\ IsAssignmentWord(line[1]) =>
                   /\ pipeline'[1].commands = << >>
                   /\ HasKey(variables', AssignedName(line[1]))
                   /\ Get(variables', AssignedName(line[1]), << >>) = AssignedValue(line[1])
            /\ IsCommandWithAssignment(line[1]) =>
                   LET word == Split1(line[1], " ")[2] IN
                   /\ Len(pipeline'[1].commands) = 1
                   /\ pipeline'[1].commands[1].name = Split1(line[1], " ")[1]
                   /\ HasKey(pipeline'[1].commands[1].env_vars, AssignedName(word))
                   /\ Get(pipeline'[1].commands[1].env_vars, AssignedName(word), << >>)
                          = AssignedValue(word)
                   /\ variables' = variables
      ]_vars

\* word is $NAME: a dollar sign and an identifier
IsDollarName(word) ==
    /\ Len(word) >= 2
    /\ word[1] = "$"
    /\ IsIdentStart(word[2])
    /\ \A k \in 2..Len(word) : IsIdentChar(word[k])

\* the value of the variable a $NAME word refers to
ValueOf(word, svars, environ) == Lookup(svars, environ, SubSeq(word, 2, Len(word)))

\* l is a command word of letters, one blank and a $NAME word
IsCommandWithDollarName(l) ==
    /\ Contains(l, " ")
    /\ LET cmd == Split1(l, " ")[1] IN cmd # << >> /\ \A k \in 1..Len(cmd) : cmd[k] \in Letters
    /\ IsDollarName(Split1(l, " ")[2])

\* C25: a $NAME word is not an assignment: the line  cmd $NAME  parses to
\* the command cmd with exactly one argument, the value of NAME, and the
\* line  $NAME  parses to one command named by the value of NAME.
C25_DollarNameIsAWord ==
    Parsed =>
        /\ IsCommandWithDollarName(line[1]) =>
               /\ Len(Commands) = 1
               /\ Commands[1].name = Split1(line[1], " ")[1]
               /\ Commands[1].args =
                      <<ValueOf(Split1(line[1], " ")[2], variables, os_environ)>>
        /\ IsDollarName(line[1]) =>
               /\ Len(Commands) = 1
               /\ Commands[1].name = ValueOf(line[1], variables, os_environ)

\* index of the last character of the identifier that starts at text[i]
RECURSIVE RunEnd(_, _)
RunEnd(text, i) ==
    IF i + 1 <= Len(text) /\ IsIdentChar(text[i + 1]) THEN RunEnd(text, i + 1) ELSE i

\* text read once from left to right: each ${NAME} and each $NAME, NAME the
\* longest run of identifier characters, gives the value of NAME; every
\* other character gives itself; values are not read again
RECURSIVE Expanded(_, _, _)
Expanded(text, svars, environ) ==
    IF text = << >> THEN << >>
    ELSE IF /\ Len(text) >= 4
            /\ text[1] = "$"
            /\ text[2] = "{"
            /\ text[3] # "}"
            /\ \E j \in 4..Len(text) : text[j] = "}"
    THEN LET j == CHOOSE j \in 4..Len(text) :
                      text[j] = "}" /\ \A k \in 4..(j - 1) : text[k] # "}"
         IN  Lookup(svars, environ, SubSeq(text, 3, j - 1))
                 \o Expanded(SubSeq(text, j + 1, Len(text)), svars, environ)
    ELSE IF Len(text) >= 2 /\ text[1] = "$" /\ IsIdentStart(text[2])
    THEN LET e == RunEnd(text, 2)
         IN  Lookup(svars, environ, SubSeq(text, 2, e))
                 \o Expanded(SubSeq(text, e + 1, Len(text)), svars, environ)
    ELSE <<text[1]>> \o Expanded(Tail(text), svars, environ)

\* l is a command word of letters, one blank, and one word of letters,
\* digits, _, $, { and } that does not start with $
IsCommandWithText(l) ==
    /\ Contains(l, " ")
    /\ LET cmd  == Split1(l, " ")[1]
           text == Split1(l, " ")[2]
       IN  /\ cmd # << >>
           /\ \A k \in 1..Len(cmd) : cmd[k] \in Letters
           /\ text # << >>
           /\ text[1] # "$"
           /\ \A k \in 1..Len(text) : text[k] \in Letters \cup Digits \cup {"_", "$", "{", "}"}

\* C26: the argument parse stores for a word is the word with each ${NAME}
\* and each $NAME replaced by the value of exactly that NAME (the parser's
\* variables first, then the process environment, else the empty string) and
\* every other character unchanged.
C26_ExpandsEachReference ==
    (Parsed /\ IsCommandWithText(line[1])) =>
        /\ Len(Commands) = 1
        /\ Commands[1].args = <<Expanded(Split1(line[1], " ")[2], variables, os_environ)>>

\* the quote character of the region that is open before s[i] is read,
\* "" when none is
RECURSIVE QuoteBefore(_, _)
QuoteBefore(s, i) ==
    IF i = 1 THEN ""
    ELSE LET q == QuoteBefore(s, i - 1)
             c == s[i - 1]
         IN  IF q = "" THEN (IF c \in {"\"", "'"} THEN c ELSE "")
             ELSE IF c = q THEN "" ELSE q

\* s[i] belongs to a quoted region: it opens one, lies in one or closes one
InQuotedRegion(s, i) == QuoteBefore(s, i) # "" \/ s[i] \in {"\"", "'"}

\* s[i] is whitespace or an operator character outside every quoted region
IsSeparator(s, i) == ~InQuotedRegion(s, i) /\ (IsSpace(s[i]) \/ s[i] \in {"|", ">", "<", "&"})

\* index of the last character of the run without separators that starts at s[i]
RECURSIVE WordEnd(_, _)
WordEnd(s, i) ==
    IF i + 1 <= Len(s) /\ ~IsSeparator(s, i + 1) THEN WordEnd(s, i + 1) ELSE i

\* the words and operators of s from s[i] on: the maximal runs without
\* separators, and the operator characters outside quotes (doubled >, &
\* and | as one)
RECURSIVE WordsAndOperators(_, _)
WordsAndOperators(s, i) ==
    IF i > Len(s) THEN << >>
    ELSE IF IsSeparator(s, i)
    THEN IF IsSpace(s[i]) THEN WordsAndOperators(s, i + 1)
         ELSE IF s[i] \in {">", "&", "|"} /\ i + 1 <= Len(s) /\ s[i + 1] = s[i]
         THEN <<<<s[i], s[i]>>>> \o WordsAndOperators(s, i + 2)
         ELSE <<<<s[i]>>>> \o WordsAndOperators(s, i + 1)
    ELSE LET e == WordEnd(s, i)
         IN  <<Strip(SubSeq(s, i, e))>> \o WordsAndOperators(s, e + 1)

TokenValues(l) == LET tokens == tokenize(l) IN [i \in 1..Len(tokens) |-> tokens[i].value]

OperatorTypes == {"PIPE", "REDIRECT_OUT", "REDIRECT_APPEND", "REDIRECT_IN", "BACKGROUND"}

\* C27: for every line the tokens are the maximal runs of the line that hold
\* no whitespace and no operator character outside quotes, and the operators
\* outside quotes; a quoted region runs from a quote character to the next
\* occurrence of the same character, or to the end of the line when there
\* is none. No whitespace or operator character of a quoted region splits a
\* token or gives an operator token.
C27_QuotesProtect ==
    Parsed =>
        /\ TokenValues(line[1]) = WordsAndOperators(line[1], 1)
        /\ \A i \in 1..Len(line[1]) :
               (InQuotedRegion(line[1], i) /\ line[1][i] \in {"|", ">", "<", "&"}) =>
                   Cardinality({k \in 1..Len(tokenize(line[1])) :
                                    tokenize(line[1])[k].type \in OperatorTypes})
                       < Cardinality({j \in 1..Len(line[1]) : line[1][j] \in {"|", ">", "<", "&"}})

\* a line of one token in which a ' and an operator lie inside a " region
\* that is never closed
C27_Witness ==
    /\ Parsed
    /\ Len(tokenize(line[1])) = 1
    /\ \E i, j \in 1..Len(line[1]) :
           /\ i < j
           /\ line[1][i] = "'"
           /\ QuoteBefore(line[1], i) = "\""
           /\ line[1][j] \in {"|", ">", "<", "&"}
           /\ QuoteBefore(line[1], j) = "\""

====
